---- MODULE Spec2Model ----
(***************************************************************************)
(* A model of ahkab/printing.py: the console helpers of the simulator.     *)
(* Text is modelled character by character: a Python string is a sequence  *)
(* of one-character strings, sys.stdout and sys.stderr are the sequences   *)
(* of characters written to them so far.                                   *)
(***************************************************************************)
EXTENDS Integers, Sequences, FiniteSets, TLC

(***************************************************************************)
(* Bounds of the model.                                                    *)
(***************************************************************************)
\* at most MaxCalls calls are made after the import
MaxCalls == 1
\* verbose and relevance range over 0..MaxVerbose
MaxVerbose == 2
\* a symbolic-result mapping holds at most MaxKeys keys
MaxKeys == 2
\* badvars holds at most MaxBad entries
MaxBad == 2
\* nline ranges over 0..MaxLine
MaxLine == 11

(***************************************************************************)
(* String literals of the source.                                          *)
(***************************************************************************)
\* '\n'
NL == <<"\n">>
\* ' '
SP == <<" ">>
\* 'E: '
ERROR_PREFIX == <<"E",":"," ">>
\* 'W: '
WARNING_PREFIX == <<"W",":"," ">>
\* 'Parse error on line '
PARSE_ERROR_HEAD == <<"P","a","r","s","e"," ","e","r","r","o","r"," ","o","n"," ","l","i","n","e"," ">>
\* ':'
COLON == <<":">>
\* 'Locale appears not set! please export LANG="en_US.UTF-8" or equivalent, '
LOCALE_WARNING_1 == <<"L","o","c","a","l","e"," ","a","p","p","e","a","r","s"," ","n","o","t"," ","s","e","t","!"," ","p","l","e","a","s","e"," ","e","x","p","o","r","t"," ","L","A","N","G","=","\"","e","n","_","U","S",".","U","T","F","-","8","\""," ","o","r"," ","e","q","u","i","v","a","l","e","n","t",","," ">>
\* "or ahkab's unicode support is broken."
LOCALE_WARNING_2 == <<"o","r"," ","a","h","k","a","b","'","s"," ","u","n","i","c","o","d","e"," ","s","u","p","p","o","r","t"," ","i","s"," ","b","r","o","k","e","n",".">>
\* '.op'
DOT_OP == <<".","o","p">>
\* '='
EQ == <<"=">>
\* '.dc '
DOT_DC == <<".","d","c"," ">>
\* ' start='
DC_START == <<" ","s","t","a","r","t","=">>
\* ' stop='
DC_STOP == <<" ","s","t","o","p","=">>
\* ' step='
DC_STEP == <<" ","s","t","e","p","=">>
\* ' type='
DC_TYPE == <<" ","t","y","p","e","=">>
\* '.tran tstep='
DOT_TRAN == <<".","t","r","a","n"," ","t","s","t","e","p","=">>
\* ' tstop='
TRAN_TSTOP == <<" ","t","s","t","o","p","=">>
\* ' tstart='
TRAN_TSTART == <<" ","t","s","t","a","r","t","=">>
\* ' method='
TRAN_METHOD == <<" ","m","e","t","h","o","d","=">>
\* '.shooting period='
DOT_SHOOTING == <<".","s","h","o","o","t","i","n","g"," ","p","e","r","i","o","d","=">>
\* ' method='
SHOOTING_METHOD == <<" ","m","e","t","h","o","d","=">>
\* ' points='
SHOOTING_POINTS == <<" ","p","o","i","n","t","s","=">>
\* ' step='
SHOOTING_STEP == <<" ","s","t","e","p","=">>
\* ' autonomous='
SHOOTING_AUTONOMOUS == <<" ","a","u","t","o","n","o","m","o","u","s","=">>
\* '\t = '
SYM_SEP == <<"\t"," ","="," ">>
\* ' = '
TF_SEP == <<" ","="," ">>
\* '\tDC: '
TF_DC == <<"\t","D","C",":"," ">>
\* '\tP'
TF_P == <<"\t","P">>
\* '\tZ'
TF_Z == <<"\t","Z">>
\* 'Warning: solution is heavvily dependent on gmin.'
GMIN_WARNING == <<"W","a","r","n","i","n","g",":"," ","s","o","l","u","t","i","o","n"," ","i","s"," ","h","e","a","v","v","i","l","y"," ","d","e","p","e","n","d","e","n","t"," ","o","n"," ","g","m","i","n",".">>
\* 'Affected variables:'
AFFECTED == <<"A","f","f","e","c","t","e","d"," ","v","a","r","i","a","b","l","e","s",":">>
\* 'Difference check is within margins.'
WITHIN_MARGINS == <<"D","i","f","f","e","r","e","n","c","e"," ","c","h","e","c","k"," ","i","s"," ","w","i","t","h","i","n"," ","m","a","r","g","i","n","s",".">>
\* '(Voltage: er='
VOLTAGE_ER == <<"(","V","o","l","t","a","g","e",":"," ","e","r","=">>
\* ', ea='
EA == <<","," ","e","a","=">>
\* ', Current: er='
CURRENT_ER == <<","," ","C","u","r","r","e","n","t",":"," ","e","r","=">>
\* ')'
RPAREN == <<")">>
\* 'None'
NONE_STR == <<"N","o","n","e">>
\* 'True'
TRUE_STR == <<"T","r","u","e">>
\* 'False'
FALSE_STR == <<"F","a","l","s","e">>
\* the printable ASCII characters in code-point order (without the backquote)
ASCII == <<" ","!","\"","#","$","%","&","'","(",")","*","+",",","-",".","/","0","1","2","3","4","5","6","7","8","9",":",";","<","=",">","?","@","A","B","C","D","E","F","G","H","I","J","K","L","M","N","O","P","Q","R","S","T","U","V","W","X","Y","Z","[","\\","]","^","_","a","b","c","d","e","f","g","h","i","j","k","l","m","n","o","p","q","r","s","t","u","v","w","x","y","z","{","|","}","~">>
(***************************************************************************)
(* The keys of an analysis descriptor and the analysis types.              *)
(***************************************************************************)
K_type == <<"t","y","p","e">>
K_outfile == <<"o","u","t","f","i","l","e">>
K_verbose == <<"v","e","r","b","o","s","e">>
K_guess == <<"g","u","e","s","s">>
K_x0 == <<"x","0">>
K_source == <<"s","o","u","r","c","e">>
K_start == <<"s","t","a","r","t">>
K_stop == <<"s","t","o","p">>
K_step == <<"s","t","e","p">>
K_sweep_type == <<"s","w","e","e","p","_","t","y","p","e">>
K_tstep == <<"t","s","t","e","p">>
K_tstop == <<"t","s","t","o","p">>
K_tstart == <<"t","s","t","a","r","t">>
K_method == <<"m","e","t","h","o","d">>
K_period == <<"p","e","r","i","o","d">>
K_points == <<"p","o","i","n","t","s">>
K_autonomous == <<"a","u","t","o","n","o","m","o","u","s">>
T_op == <<"o","p">>
T_dc == <<"d","c">>
T_tran == <<"t","r","a","n">>
T_shooting == <<"s","h","o","o","t","i","n","g">>
T_ac == <<"a","c">>

(***************************************************************************)
(* The text the inputs are drawn from.                                     *)
(***************************************************************************)
\* ''
S_empty == <<>>
\* 'no ground'
S_no_ground == <<"n","o"," ","g","r","o","u","n","d">>
\* 'W: x'
S_W_x == <<"W",":"," ","x">>
\* 'ok'
S_ok == <<"o","k">>
\* 'Solving...'
S_solving == <<"S","o","l","v","i","n","g",".",".",".">>
\* 'r1 1 2'
S_r1 == <<"r","1"," ","1"," ","2">>
\* 'stdout'
S_stdout == <<"s","t","d","o","u","t">>
\* 'V1'
S_V1 == <<"V","1">>
\* 'I[V1]'
S_I_V1 == <<"I","[","V","1","]">>
\* '10'
S_10 == <<"1","0">>
\* 'LIN'
S_LIN == <<"L","I","N">>
\* 'TRAP'
S_TRAP == <<"T","R","A","P">>
\* 'brute-force'
S_brute == <<"b","r","u","t","e","-","f","o","r","c","e">>
\* 'VN1'
S_VN1 == <<"V","N","1">>
\* 'en_US.UTF-8'
S_en_US == <<"e","n","_","U","S",".","U","T","F","-","8">>
\* 'R1'
S_R1 == <<"R","1">>

(***************************************************************************)
(* Python values and the built-in conversions the module applies to them.  *)
(***************************************************************************)
PyNone == [t |-> "None"]
PyStr(s) == [t |-> "str", v |-> s]
PyInt(n) == [t |-> "int", v |-> n]
PyBool(b) == [t |-> "bool", v |-> b]
\* a sympy Symbol: its str() is its name
Symbol(name) == [t |-> "Symbol", v |-> name]

Digit(d) == SubSeq(<<"0","1","2","3","4","5","6","7","8","9">>, d + 1, d + 1)

RECURSIVE NatToStr(_)
NatToStr(n) == IF n < 10 THEN Digit(n) ELSE NatToStr(n \div 10) \o Digit(n % 10)

\* str(n) of an int: decimal digits, "-" in front of a negative one
IntToStr(n) == IF n < 0 THEN <<"-">> \o NatToStr(0 - n) ELSE NatToStr(n)

\* str(v)
str(v) ==
    CASE v.t = "None" -> NONE_STR
      [] v.t = "str" -> v.v
      [] v.t = "Symbol" -> v.v
      [] v.t = "int" -> IntToStr(v.v)
      [] v.t = "bool" -> IF v.v THEN TRUE_STR ELSE FALSE_STR

\* "%g" % v for an int of fewer than seven digits (the values drawn here)
Fmt_g(v) == IntToStr(v.v)

\* Python truthiness: bool(v)
Truthy(v) ==
    CASE v.t = "None" -> FALSE
      [] v.t = "str" -> Len(v.v) > 0
      [] v.t = "Symbol" -> TRUE
      [] v.t = "int" -> v.v # 0
      [] v.t = "bool" -> v.v

\* the rank of character c, which orders characters as ord(c) does
Ord(c) == CHOOSE i \in 1..Len(ASCII) : ASCII[i] = c

\* cmp(a, b) of two strings: -1, 0 or 1, by code point, a proper prefix first
RECURSIVE cmp(_, _)
cmp(a, b) ==
    IF Len(a) = 0 \/ Len(b) = 0
    THEN (IF Len(a) = Len(b) THEN 0 ELSE IF Len(a) = 0 THEN 0 - 1 ELSE 1)
    ELSE IF Ord(Head(a)) < Ord(Head(b)) THEN 0 - 1
    ELSE IF Ord(Head(a)) > Ord(Head(b)) THEN 1
    ELSE cmp(Tail(a), Tail(b))

(***************************************************************************)
(* The state.                                                              *)
(***************************************************************************)
VARIABLES
    stdout,           \* the characters written to sys.stdout
    stderr,           \* the characters written to sys.stderr
    np_printoptions,  \* numpy's global print options
    options,          \* options.print_precision and options.print_suppress
    PY2,              \* py3compat.PY2: the interpreter is Python 2
    LANG,             \* the LANG environment variable (PyNone when unset)
    locale,           \* the module attribute set at import ("unset" before)
    last,             \* the last call: its name, arguments, outcome and pre-state
    ncalls            \* the number of calls made since the import

vars == <<stdout, stderr, np_printoptions, options, PY2, LANG, locale, last, ncalls>>

\* the two streams, as the functions below see and change them
io == [out |-> stdout, err |-> stderr]

\* print(text, end=end): one write of text and end to sys.stdout
print(s, text, end) == [s EXCEPT !.out = @ \o text \o end]

\* sys.stdout.write(text)
stdout_write(s, text) == [s EXCEPT !.out = @ \o text]

\* sys.stderr.write(text)
stderr_write(s, text) == [s EXCEPT !.err = @ \o text]

(***************************************************************************)
(* printoptions: the context manager around numpy's print options.         *)
(***************************************************************************)
\* np.set_printoptions(**kwargs): the options given are set, the others kept
set_printoptions(np, kwargs) ==
    [k \in DOMAIN np |-> IF k \in DOMAIN kwargs THEN kwargs[k] ELSE np[k]]

\* The options after `with printoptions(**kwargs): body': the generator saves
\* the options, sets the new ones and yields; the statement after the yield
\* runs when the body returns, and an exception of the body is thrown into
\* the generator at the yield, which has no try/finally around it.
printoptions(np, kwargs, body_raises) ==
    LET original == np
        inside == set_printoptions(np, kwargs)
    IN  IF body_raises THEN inside ELSE set_printoptions(inside, original)

(***************************************************************************)
(* The error, warning and information lines.                               *)
(***************************************************************************)
\* variant: the description is written without the prefix
print_general_error_noprefix(s, description, print_to_stdout) ==
    IF print_to_stdout
    THEN print(s, description, NL)
    ELSE stderr_write(s, description \o NL)

print_general_error(s, description, print_to_stdout) ==
    LET the_error_message == ERROR_PREFIX \o description
    IN  IF print_to_stdout
        THEN print(s, the_error_message, NL)
        ELSE stderr_write(s, the_error_message \o NL)

\* variant: the warning goes to stdout whatever print_to_stdout is
print_warning_to_stdout(s, description, print_to_stdout) ==
    print(s, WARNING_PREFIX \o description, NL)

print_warning(s, description, print_to_stdout) ==
    LET the_warning_message == WARNING_PREFIX \o description
    IN  IF print_to_stdout
        THEN print(s, the_warning_message, NL)
        ELSE stderr_write(s, the_warning_message \o NL)

\* variant: the line is printed only when verbose exceeds relevance
print_info_line_strict(s, msg, relevance, verbose, print_nl) ==
    IF verbose > relevance
    THEN (IF print_nl THEN print(s, msg, NL) ELSE print(s, msg, SP))
    ELSE s

\* the streams after print_info_line((msg, relevance), verbose, print_nl)
print_info_line(s, msg, relevance, verbose, print_nl) ==
    IF verbose >= relevance
    THEN (IF print_nl THEN print(s, msg, NL) ELSE print(s, msg, SP))
    ELSE s

\* variant: the offending line is written before the header
print_parse_error_line_first(s, nline, line, print_to_stdout) ==
    LET s1 == IF print_to_stdout
              THEN print(s, line, NL)
              ELSE stderr_write(s, line \o NL)
    IN  print_general_error(s1, PARSE_ERROR_HEAD \o IntToStr(nline) \o COLON,
                            print_to_stdout)

print_parse_error(s, nline, line, print_to_stdout) ==
    LET s1 == print_general_error(s, PARSE_ERROR_HEAD \o IntToStr(nline) \o COLON,
                                  print_to_stdout)
    IN  IF print_to_stdout
        THEN print(s1, line, NL)
        ELSE stderr_write(s1, line \o NL)

(***************************************************************************)
(* Mappings: a dict is the sequence of its items in iteration order.       *)
(***************************************************************************)
has_key(d, k) == \E i \in 1..Len(d) : d[i].k = k
getitem(d, k) == d[CHOOSE i \in 1..Len(d) : d[i].k = k].v
has_keys(d, ks) == \A k \in ks : has_key(d, k)

\* the outcome of a call: the streams it leaves and how it ended
Returns(s) == [io |-> s, result |-> "None"]
Raises(s, exc) == [io |-> s, result |-> exc]

(***************************************************************************)
(* print_analysis                                                          *)
(***************************************************************************)
\* the " key=value" fields of the .op line, from item i of the descriptor on
RECURSIVE op_fields(_, _)
op_fields(an, i) ==
    IF i > Len(an) THEN <<>>
    ELSE (IF an[i].k \in {K_type, K_outfile, K_verbose}
          THEN <<>>
          ELSE SP \o an[i].k \o EQ \o str(an[i].v)) \o op_fields(an, i + 1)

print_analysis_op(s, an) ==
    Returns(print(print(print(s, DOT_OP, <<>>), op_fields(an, 1), <<>>), <<>>, NL))

print_analysis_dc(s, an) ==
    IF ~has_keys(an, {K_source, K_start, K_stop, K_step, K_sweep_type})
    THEN Raises(s, "KeyError")
    ELSE Returns(print(s, DOT_DC \o str(getitem(an, K_source))
                          \o DC_START \o Fmt_g(getitem(an, K_start))
                          \o DC_STOP \o Fmt_g(getitem(an, K_stop))
                          \o DC_STEP \o Fmt_g(getitem(an, K_step))
                          \o DC_TYPE \o str(getitem(an, K_sweep_type)), NL))

\* variant: the method field is printed even when method is None
print_analysis_tran_always_method(s, an) ==
    IF ~has_keys(an, {K_tstep, K_tstop, K_tstart})
    THEN Raises(s, "KeyError")
    ELSE LET s1 == stdout_write(s, DOT_TRAN \o str(getitem(an, K_tstep))
                                   \o TRAN_TSTOP \o str(getitem(an, K_tstop))
                                   \o TRAN_TSTART \o str(getitem(an, K_tstart)))
         IN  IF ~has_key(an, K_method) THEN Raises(s1, "KeyError")
             ELSE Returns(print(s1, TRAN_METHOD \o str(getitem(an, K_method)), NL))

print_analysis_tran(s, an) ==
    IF ~has_keys(an, {K_tstep, K_tstop, K_tstart})
    THEN Raises(s, "KeyError")
    ELSE LET s1 == stdout_write(s, DOT_TRAN \o str(getitem(an, K_tstep))
                                   \o TRAN_TSTOP \o str(getitem(an, K_tstop))
                                   \o TRAN_TSTART \o str(getitem(an, K_tstart)))
         IN  IF ~has_key(an, K_method) THEN Raises(s1, "KeyError")
             ELSE IF getitem(an, K_method) # PyNone
             THEN Returns(print(s1, TRAN_METHOD \o getitem(an, K_method).v, NL))
             ELSE Returns(print(s1, <<>>, NL))

print_analysis_shooting(s, an) ==
    IF ~has_keys(an, {K_period, K_method})
    THEN Raises(s, "KeyError")
    ELSE LET s1 == stdout_write(s, DOT_SHOOTING \o str(getitem(an, K_period))
                                   \o SHOOTING_METHOD \o str(getitem(an, K_method)))
         IN  IF ~has_key(an, K_points) THEN Raises(s1, "KeyError")
             ELSE LET s2 == IF getitem(an, K_points) # PyNone
                            THEN stdout_write(s1, SHOOTING_POINTS
                                                  \o str(getitem(an, K_points)))
                            ELSE s1
                  IN  IF ~has_key(an, K_step) THEN Raises(s2, "KeyError")
                      ELSE LET s3 == IF getitem(an, K_step) # PyNone
                                     THEN stdout_write(s2, SHOOTING_STEP
                                                           \o str(getitem(an, K_step)))
                                     ELSE s2
                           IN  IF ~has_key(an, K_autonomous)
                               THEN Raises(s3, "KeyError")
                               ELSE Returns(print(s3, SHOOTING_AUTONOMOUS \o SP
                                                  \o str(getitem(an, K_autonomous)), NL))

\* the outcome of print_analysis(an)
print_analysis(s, an) ==
    IF ~has_key(an, K_type) THEN Raises(s, "KeyError")
    ELSE IF getitem(an, K_type) = PyStr(T_op) THEN print_analysis_op(s, an)
    ELSE IF getitem(an, K_type) = PyStr(T_dc) THEN print_analysis_dc(s, an)
    ELSE IF getitem(an, K_type) = PyStr(T_tran) THEN print_analysis_tran(s, an)
    ELSE IF getitem(an, K_type) = PyStr(T_shooting) THEN print_analysis_shooting(s, an)
    ELSE Returns(s)

(***************************************************************************)
(* print_symbolic_results and print_symbolic_transfer_functions            *)
(***************************************************************************)
\* keys with key put after the last element that does not compare greater
RECURSIVE insert_sorted(_, _)
insert_sorted(keys, key) ==
    IF Len(keys) = 0 THEN <<key>>
    ELSE IF cmp(str(keys[Len(keys)]), str(key)) <= 0 THEN Append(keys, key)
    ELSE Append(insert_sorted(SubSeq(keys, 1, Len(keys) - 1), key), keys[Len(keys)])

\* keys.sort(lambda x, y: cmp(str(x), str(y))) of Python 2: a stable sort
RECURSIVE keys_sort(_)
keys_sort(keys) ==
    IF Len(keys) = 0 THEN <<>>
    ELSE insert_sorted(keys_sort(SubSeq(keys, 1, Len(keys) - 1)), keys[Len(keys)])

\* list(x.keys())
dict_keys(x) == [i \in 1..Len(x) |-> x[i].k]

RECURSIVE symbolic_lines(_, _, _)
symbolic_lines(x, keys, i) ==
    IF i > Len(keys) THEN <<>>
    ELSE str(keys[i]) \o SYM_SEP \o str(getitem(x, keys[i])) \o NL
         \o symbolic_lines(x, keys, i + 1)

\* variant: the lines follow the mapping's own iteration order
print_symbolic_results_unsorted(s, x) ==
    IF ~PY2 THEN Raises(s, "TypeError")
    ELSE Returns(print(s, symbolic_lines(x, dict_keys(x), 1), <<>>))

\* the outcome of print_symbolic_results(x): list.sort takes a comparison
\* function as its positional argument in Python 2 only
print_symbolic_results(s, x) ==
    IF ~PY2 THEN Raises(s, "TypeError")
    ELSE Returns(print(s, symbolic_lines(x, keys_sort(dict_keys(x)), 1), <<>>))

\* the "\tP<index>: <pole>" lines (tag TF_P) or "\tZ<index>: <zero>" lines
RECURSIVE indexed_lines(_, _, _)
indexed_lines(tag, values, index) ==
    IF index >= Len(values) THEN <<>>
    ELSE tag \o IntToStr(index) \o COLON \o SP \o str(values[index + 1]) \o NL
         \o indexed_lines(tag, values, index + 1)

transfer_function_block(key, tf) ==
    str(key) \o TF_SEP \o str(tf.gain) \o NL
    \o TF_DC \o str(tf.gain0) \o NL
    \o indexed_lines(TF_P, tf.poles, 0)
    \o indexed_lines(TF_Z, tf.zeros, 0)

RECURSIVE transfer_function_blocks(_, _, _)
transfer_function_blocks(x, keys, i) ==
    IF i > Len(keys) THEN <<>>
    ELSE transfer_function_block(keys[i], getitem(x, keys[i]))
         \o transfer_function_blocks(x, keys, i + 1)

\* the outcome of print_symbolic_transfer_functions(x)
print_symbolic_transfer_functions(s, x) ==
    IF ~PY2 THEN Raises(s, "TypeError")
    ELSE Returns(print(s, transfer_function_blocks(x, keys_sort(dict_keys(x)), 1), <<>>))

(***************************************************************************)
(* print_result_check                                                      *)
(***************************************************************************)
\* str() of the tolerances options.ver, options.vea, options.ier, options.iea
OPTIONS_ver == <<"0",".","0","0","1">>
OPTIONS_vea == <<"1","e","-","0","6">>
OPTIONS_ier == <<"0",".","0","0","1">>
OPTIONS_iea == <<"1","e","-","0","9">>

RECURSIVE badvar_lines(_, _)
badvar_lines(badvars, i) ==
    IF i > Len(badvars) THEN <<>>
    ELSE str(badvars[i]) \o NL \o badvar_lines(badvars, i + 1)

\* variant: verbose 0 silences the gmin warning too
print_result_check_quiet(s, badvars, verbose) ==
    IF Len(badvars) # 0 /\ Truthy(verbose)
    THEN print(print(print(s, GMIN_WARNING, NL), AFFECTED, NL),
               badvar_lines(badvars, 1), <<>>)
    ELSE IF Len(badvars) = 0 /\ Truthy(verbose)
    THEN print(print(s, WITHIN_MARGINS, NL),
               VOLTAGE_ER \o OPTIONS_ver \o EA \o OPTIONS_vea
               \o CURRENT_ER \o OPTIONS_ier \o EA \o OPTIONS_iea \o RPAREN, NL)
    ELSE s

\* the streams after print_result_check(badvars, verbose)
print_result_check(s, badvars, verbose) ==
    IF Len(badvars) # 0
    THEN print(print(print(s, GMIN_WARNING, NL), AFFECTED, NL),
               badvar_lines(badvars, 1), <<>>)
    ELSE IF Truthy(verbose)
    THEN print(print(s, WITHIN_MARGINS, NL),
               VOLTAGE_ER \o OPTIONS_ver \o EA \o OPTIONS_vea
               \o CURRENT_ER \o OPTIONS_ier \o EA \o OPTIONS_iea \o RPAREN, NL)
    ELSE s

(***************************************************************************)
(* Module load: the locale check at the end of the module.                 *)
(***************************************************************************)
\* variant: the warning is emitted when LANG is set
module_load_warns_when_set(s, lang) ==
    IF Truthy(lang)
    THEN print_warning(print_warning(s, LOCALE_WARNING_1, FALSE),
                       LOCALE_WARNING_2, FALSE)
    ELSE s

\* the streams after the module body ran with LANG = lang: os.getenv gives
\* None for an unset variable, and `not locale' holds of None and of ""
module_load(s, lang) ==
    IF ~Truthy(lang)
    THEN print_warning(print_warning(s, LOCALE_WARNING_1, FALSE),
                       LOCALE_WARNING_2, FALSE)
    ELSE s

(***************************************************************************)
(* The inputs.                                                             *)
(***************************************************************************)
Descriptions == {S_empty, S_no_ground, S_W_x}
Messages == {S_ok, S_solving}
Lines == {S_empty, S_r1}
Nlines == {1, MaxLine}
Verbosities == 0..MaxVerbose
LangValues == {PyNone, PyStr(S_empty), PyStr(S_en_US)}

\* the sequences over S of length at most n
RECURSIVE SeqsUpTo(_, _)
SeqsUpTo(S, n) ==
    IF n = 0 THEN {<<>>}
    ELSE LET shorter == SeqsUpTo(S, n - 1)
         IN  shorter \cup {Append(q, e) : q \in shorter, e \in S}

Injective(q) == \A i, j \in 1..Len(q) : q[i] = q[j] => i = j

\* keys of a symbolic result: symbols and numbers, two of them with one str()
SymKeys == {Symbol(S_V1), Symbol(S_10), PyInt(10), PyInt(9)}
KeyLists == {q \in SeqsUpTo(SymKeys, MaxKeys) : Injective(q)}

SymValue(key) == IF key.t = "int" THEN PyInt(0 - key.v) ELSE PyStr(S_R1 \o key.v)
SymbolicResults == {[i \in 1..Len(q) |-> [k |-> q[i], v |-> SymValue(q[i])]] : q \in KeyLists}

TFValue(key) ==
    [gain |-> PyStr(S_R1), gain0 |-> PyInt(1),
     poles |-> IF key.t = "int" THEN <<PyInt(0 - key.v), PyInt(0)>> ELSE <<>>,
     zeros |-> IF key.t = "int" THEN <<>> ELSE <<PyInt(3)>>]
TransferFunctions == {[i \in 1..Len(q) |-> [k |-> q[i], v |-> TFValue(q[i])]] : q \in KeyLists}

BadvarLists == SeqsUpTo({PyStr(S_VN1), PyStr(S_I_V1)}, MaxBad)

Item(key, value) == [k |-> key, v |-> value]

OpDescriptors ==
    { <<Item(K_type, PyStr(T_op))>>,
      <<Item(K_type, PyStr(T_op)), Item(K_guess, PyBool(TRUE)), Item(K_x0, PyNone),
        Item(K_outfile, PyStr(S_stdout)), Item(K_verbose, PyInt(0))>>,
      <<Item(K_verbose, PyInt(3)), Item(K_x0, PyNone), Item(K_type, PyStr(T_op)),
        Item(K_guess, PyBool(FALSE))>> }
DcDescriptors ==
    { <<Item(K_type, PyStr(T_dc)), Item(K_source, PyStr(S_V1)),
        Item(K_start, PyInt(0 - 5)), Item(K_stop, PyInt(10)), Item(K_step, PyInt(1)),
        Item(K_sweep_type, PyStr(S_LIN)), Item(K_outfile, PyStr(S_stdout))>> }
TranDescriptors ==
    { <<Item(K_type, PyStr(T_tran)), Item(K_tstart, PyInt(0)), Item(K_tstep, PyInt(1)),
        Item(K_tstop, PyInt(20)), Item(K_method, m)>> : m \in {PyNone, PyStr(S_TRAP)} }
ShootingDescriptors ==
    { <<Item(K_type, PyStr(T_shooting)), Item(K_period, PyInt(2)),
        Item(K_method, PyStr(S_brute)), Item(K_points, p), Item(K_step, st),
        Item(K_autonomous, PyBool(FALSE))>> : p \in {PyNone, PyInt(8)}, st \in {PyNone, PyInt(3)} }
OtherDescriptors ==
    { <<Item(K_type, PyStr(T_ac)), Item(K_start, PyInt(1)), Item(K_stop, PyInt(10))>>,
      <<Item(K_type, PyNone)>> }
FullDescriptors ==
    OpDescriptors \cup DcDescriptors \cup TranDescriptors \cup ShootingDescriptors
    \cup OtherDescriptors

\* d without its item i
without(d, i) == SubSeq(d, 1, i - 1) \o SubSeq(d, i + 1, Len(d))

\* the descriptors drawn: the full ones, and each with one item missing
Descriptors ==
    FullDescriptors
    \cup UNION {{without(d, i) : i \in 1..Len(d)} : d \in FullDescriptors}

PrintoptionsArgs == {[precision |-> 4], [precision |-> 4, suppress |-> TRUE]}

(***************************************************************************)
(* The state machine.                                                      *)
(***************************************************************************)
unset == [t |-> "unset"]

\* what the process may have written to sys.stdout before the import
PriorOutput == {<<>>, <<"$", " ">>}

Init ==
    /\ stdout \in PriorOutput
    /\ stderr = <<>>
    /\ np_printoptions = [precision |-> 8, suppress |-> FALSE, threshold |-> 1000]
    /\ options \in {[print_precision |-> 8, print_suppress |-> FALSE],
                    [print_precision |-> 4, print_suppress |-> TRUE]}
    /\ PY2 \in BOOLEAN
    /\ LANG \in LangValues
    /\ locale = unset
    /\ last = [op |-> "start", args |-> <<>>, result |-> "None",
               out0 |-> stdout, err0 |-> stderr, np0 |-> np_printoptions]
    /\ ncalls = 0

\* what a call leaves behind: the streams, and the record of the call
Call(name, args, outcome) ==
    /\ stdout' = outcome.io.out
    /\ stderr' = outcome.io.err
    /\ last' = [op |-> name, args |-> args, result |-> outcome.result,
                out0 |-> stdout, err0 |-> stderr, np0 |-> np_printoptions]
    /\ ncalls' = IF name = "import" THEN ncalls ELSE ncalls + 1

\* the module is imported: locale = os.getenv('LANG') and the check of it
import_printing ==
    /\ locale = unset
    /\ locale' = LANG
    /\ Call("import", [lang |-> LANG], Returns(module_load(io, LANG)))
    /\ UNCHANGED <<np_printoptions, options, PY2, LANG>>

\* a function of the module can be called: it is imported (and the model's
\* bound on the number of calls is not reached)
Callable == locale # unset /\ ncalls < MaxCalls

call_print_general_error ==
    /\ Callable
    /\ \E description \in Descriptions, print_to_stdout \in BOOLEAN :
          Call("print_general_error",
               [description |-> description, print_to_stdout |-> print_to_stdout],
               Returns(print_general_error(io, description, print_to_stdout)))
    /\ UNCHANGED <<np_printoptions, options, PY2, LANG, locale>>

call_print_warning ==
    /\ Callable
    /\ \E description \in Descriptions, print_to_stdout \in BOOLEAN :
          Call("print_warning",
               [description |-> description, print_to_stdout |-> print_to_stdout],
               Returns(print_warning(io, description, print_to_stdout)))
    /\ UNCHANGED <<np_printoptions, options, PY2, LANG, locale>>

call_print_info_line ==
    /\ Callable
    /\ \E msg \in Messages, relevance \in Verbosities, verbose \in Verbosities,
          print_nl \in BOOLEAN :
          /\ Call("print_info_line",
                  [msg |-> msg, relevance |-> relevance, verbose |-> verbose,
                   print_nl |-> print_nl],
                  Returns(print_info_line(io, msg, relevance, verbose, print_nl)))
          /\ np_printoptions' =
                IF verbose >= relevance
                THEN printoptions(np_printoptions,
                                  [precision |-> options.print_precision,
                                   suppress |-> options.print_suppress], FALSE)
                ELSE np_printoptions
    /\ UNCHANGED <<options, PY2, LANG, locale>>

call_print_parse_error ==
    /\ Callable
    /\ \E nline \in Nlines, line \in Lines, print_to_stdout \in BOOLEAN :
          Call("print_parse_error",
               [nline |-> nline, line |-> line, print_to_stdout |-> print_to_stdout],
               Returns(print_parse_error(io, nline, line, print_to_stdout)))
    /\ UNCHANGED <<np_printoptions, options, PY2, LANG, locale>>

call_print_analysis ==
    /\ Callable
    /\ \E an \in Descriptors :
          Call("print_analysis", [an |-> an], print_analysis(io, an))
    /\ UNCHANGED <<np_printoptions, options, PY2, LANG, locale>>

call_print_symbolic_results ==
    /\ Callable
    /\ \E x \in SymbolicResults :
          Call("print_symbolic_results", [x |-> x], print_symbolic_results(io, x))
    /\ UNCHANGED <<np_printoptions, options, PY2, LANG, locale>>

call_print_symbolic_transfer_functions ==
    /\ Callable
    /\ \E x \in TransferFunctions :
          Call("print_symbolic_transfer_functions", [x |-> x],
               print_symbolic_transfer_functions(io, x))
    /\ UNCHANGED <<np_printoptions, options, PY2, LANG, locale>>

call_print_result_check ==
    /\ Callable
    /\ \E badvars \in BadvarLists, verbose \in Verbosities :
          Call("print_result_check", [badvars |-> badvars, verbose |-> verbose],
               Returns(print_result_check(io, badvars, PyInt(verbose))))
    /\ UNCHANGED <<np_printoptions, options, PY2, LANG, locale>>

\* a caller's `with printoptions(**kwargs): body', whose body returns or raises
with_printoptions ==
    /\ Callable
    /\ \E kwargs \in PrintoptionsArgs, body_raises \in BOOLEAN :
          /\ np_printoptions' = printoptions(np_printoptions, kwargs, body_raises)
          /\ Call("printoptions", [kwargs |-> kwargs, body_raises |-> body_raises],
                  IF body_raises THEN Raises(io, "Exception") ELSE Returns(io))
    /\ UNCHANGED <<options, PY2, LANG, locale>>

Next ==
    \/ import_printing
    \/ call_print_general_error
    \/ call_print_warning
    \/ call_print_info_line
    \/ call_print_parse_error
    \/ call_print_symbolic_results
    \/ call_print_symbolic_transfer_functions
    \/ call_print_analysis
    \/ call_print_result_check
    \/ with_printoptions

Spec == Init /\ [][Next]_vars

(***************************************************************************)
(* Reading the streams back: what the last call printed, line by line.     *)
(***************************************************************************)
IsPrefix(p, s) == Len(p) <= Len(s) /\ SubSeq(s, 1, Len(p)) = p
Suffix(s, n) == SubSeq(s, n + 1, Len(s))

\* the streams only grew during the last call
AppendOnly == IsPrefix(last.out0, stdout) /\ IsPrefix(last.err0, stderr)
\* what the last call wrote to each stream
OutEmitted == Suffix(stdout, Len(last.out0))
ErrEmitted == Suffix(stderr, Len(last.err0))

SetMin(S) == CHOOSE m \in S : \A n \in S : m <= n

\* the lines of a text, each with its newline (the last may lack one)
RECURSIVE SplitLines(_)
SplitLines(s) ==
    IF s = <<>> THEN <<>>
    ELSE LET nl == {i \in 1..Len(s) : s[i] = "\n"}
         IN  IF nl = {} THEN <<s>>
             ELSE <<SubSeq(s, 1, SetMin(nl))>>
                  \o SplitLines(Suffix(s, SetMin(nl)))

Terminated(line) == Len(line) > 0 /\ line[Len(line)] = "\n"

\* one newline-terminated line
OneLine(text) == Len(SplitLines(text)) = 1 /\ Terminated(text)

\* the number of places where sub occurs in s
Occurrences(sub, s) ==
    Cardinality({i \in 1..(Len(s) - Len(sub) + 1) : SubSeq(s, i, i + Len(sub) - 1) = sub})

\* the number a string of decimal digits denotes
RECURSIVE DecimalValue(_)
DecimalValue(d) ==
    IF Len(d) = 0 THEN 0
    ELSE 10 * DecimalValue(SubSeq(d, 1, Len(d) - 1))
         + (CHOOSE n \in 0..9 : Digit(n) = <<d[Len(d)]>>)

\* string a is not after string b in code-point order
RECURSIVE LexLeq(_, _)
LexLeq(a, b) ==
    IF Len(a) = 0 THEN TRUE
    ELSE IF Len(b) = 0 THEN FALSE
    ELSE IF a[1] = b[1] THEN LexLeq(Tail(a), Tail(b))
    ELSE Ord(a[1]) < Ord(b[1])

Orderings(n) == {p \in [1..n -> 1..n] : \A i, j \in 1..n : p[i] = p[j] => i = j}

RECURSIVE Concat(_)
Concat(seqs) == IF Len(seqs) = 0 THEN <<>> ELSE Head(seqs) \o Concat(Tail(seqs))

(***************************************************************************)
(* C1: print_general_error emits exactly "E: " + description + newline,    *)
(* and print_warning exactly "W: " + description + newline, whichever      *)
(* stream print_to_stdout selects; nothing is emitted without its prefix.  *)
(***************************************************************************)
C1_Text(prefix) ==
    /\ AppendOnly
    /\ (IF last.args.print_to_stdout THEN OutEmitted ELSE ErrEmitted)
          = prefix \o last.args.description \o <<"\n">>
    /\ (IF last.args.print_to_stdout THEN ErrEmitted ELSE OutEmitted) = <<>>

C1_PrefixedMessages ==
    /\ last.op = "print_general_error" => C1_Text(<<"E", ":", " ">>)
    /\ last.op = "print_warning" => C1_Text(<<"W", ":", " ">>)

\* an error whose description itself starts with "W: " went to stderr
C1_Witness ==
    /\ last.op = "print_general_error"
    /\ last.args.description = S_W_x
    /\ ~last.args.print_to_stdout
    /\ stderr # last.err0

(***************************************************************************)
(* C2: print_general_error, print_warning and print_parse_error append     *)
(* everything to stderr and leave stdout alone when print_to_stdout is     *)
(* false, and the other way round when it is true; never to both streams.  *)
(***************************************************************************)
C2_OneStream ==
    last.op \in {"print_general_error", "print_warning", "print_parse_error"} =>
        /\ AppendOnly
        /\ IF last.args.print_to_stdout
           THEN stderr = last.err0 /\ Len(OutEmitted) > 0
           ELSE stdout = last.out0 /\ Len(ErrEmitted) > 0

\* a parse error redirected to stdout
C2_Witness ==
    /\ last.op = "print_parse_error"
    /\ last.args.print_to_stdout
    /\ stdout # last.out0

(***************************************************************************)
(* C3: print_info_line emits nothing when verbose < relevance; otherwise   *)
(* (verbose = relevance included) it emits msg once on stdout, followed by *)
(* a newline when print_nl, by one space and no newline when not.          *)
(***************************************************************************)
C3_InfoLine ==
    last.op = "print_info_line" =>
        /\ AppendOnly
        /\ ErrEmitted = <<>>
        /\ IF last.args.verbose < last.args.relevance
           THEN OutEmitted = <<>>
           ELSE OutEmitted = last.args.msg
                             \o (IF last.args.print_nl THEN <<"\n">> ELSE <<" ">>)

\* the boundary verbose = relevance, without newline
C3_Witness ==
    /\ last.op = "print_info_line"
    /\ last.args.verbose = last.args.relevance
    /\ ~last.args.print_nl
    /\ stdout # last.out0

(***************************************************************************)
(* C4: print_symbolic_results prints one line per key of x, the lines in   *)
(* non-decreasing order of str(key); print_symbolic_transfer_functions     *)
(* orders its per-key blocks in the same way.                              *)
(***************************************************************************)
\* p lists the items of x in an order in which str(key) never decreases
C4_NonDecreasing(x, p) ==
    \A i \in 1..(Len(x) - 1) : LexLeq(str(x[p[i]].k), str(x[p[i + 1]].k))

C4_ResultLine(key, value) == str(key) \o <<"\t", " ", "=", " ">> \o str(value) \o <<"\n">>

C4_SortedByStr ==
    /\ last.op = "print_symbolic_results" =>
          LET x == last.args.x
          IN  /\ AppendOnly
              /\ Len(SplitLines(OutEmitted)) = Len(x)
              /\ \E p \in Orderings(Len(x)) :
                    /\ C4_NonDecreasing(x, p)
                    /\ OutEmitted
                         = Concat([i \in 1..Len(x) |-> C4_ResultLine(x[p[i]].k, x[p[i]].v)])
    /\ last.op = "print_symbolic_transfer_functions" =>
          LET x == last.args.x
          IN  /\ AppendOnly
              /\ \E p \in Orderings(Len(x)) :
                    /\ C4_NonDecreasing(x, p)
                    /\ OutEmitted
                         = Concat([i \in 1..Len(x) |->
                                     transfer_function_block(x[p[i]].k, x[p[i]].v)])

\* the same, of the calls made under Python 2 only
C4_SortedByStrOnPython2 == PY2 => C4_SortedByStr

\* keys 9 and 10 were printed, "10" before "9", from a mapping that holds 9 first
C4_Python2Witness ==
    /\ PY2
    /\ last.op = "print_symbolic_results"
    /\ dict_keys(last.args.x) = <<PyInt(9), PyInt(10)>>
    /\ stdout # last.out0

(***************************************************************************)
(* C5: the numpy print options after a printoptions with-block are those   *)
(* from before it, whether the body returned or raised.                    *)
(***************************************************************************)
C5_OptionsRestored ==
    last.op \in {"printoptions", "print_info_line"} => np_printoptions = last.np0

\* the same, of the with-blocks whose body returned only
C5_OptionsRestoredOnReturn ==
    last.op \in {"printoptions", "print_info_line"} /\ last.result = "None"
        => np_printoptions = last.np0

(***************************************************************************)
(* C6: no operation raises: the error-reporting functions return None, and *)
(* print_analysis, print_symbolic_results,                                 *)
(* print_symbolic_transfer_functions and print_result_check complete       *)
(* without raising, whatever the descriptor or mapping.                    *)
(***************************************************************************)
C6_NothingRaises ==
    last.op \in {"print_general_error", "print_warning", "print_parse_error",
                 "print_analysis", "print_symbolic_results",
                 "print_symbolic_transfer_functions", "print_result_check"}
        => last.result = "None"

(***************************************************************************)
(* C7: importing the module emits the locale warning iff LANG is unset or  *)
(* empty: then two "W: " lines on stderr and nothing on stdout; with a     *)
(* non-empty LANG the import emits nothing.                                *)
(***************************************************************************)
C7_LocaleWarning ==
    last.op = "import" =>
        /\ AppendOnly
        /\ OutEmitted = <<>>
        /\ IF LANG = PyNone \/ LANG = PyStr(<<>>)
           THEN LET lines == SplitLines(ErrEmitted)
                IN  /\ Len(lines) = 2
                    /\ \A i \in 1..2 : /\ IsPrefix(<<"W", ":", " ">>, lines[i])
                                       /\ Terminated(lines[i])
           ELSE ErrEmitted = <<>>

\* the module was imported with LANG set to the empty string, and warned
C7_Witness ==
    /\ last.op = "import"
    /\ LANG = PyStr(<<>>)
    /\ stderr # <<>>

(***************************************************************************)
(* C8: print_parse_error emits two lines on one stream, first              *)
(* "E: Parse error on line <nline>:" and then the line unchanged.          *)
(***************************************************************************)
C8_Header == <<"E", ":", " ", "P", "a", "r", "s", "e", " ", "e", "r", "r", "o", "r", " ",
               "o", "n", " ", "l", "i", "n", "e", " ">>

C8_HeaderThenLine ==
    last.op = "print_parse_error" =>
        LET text == IF last.args.print_to_stdout THEN OutEmitted ELSE ErrEmitted
            other == IF last.args.print_to_stdout THEN ErrEmitted ELSE OutEmitted
            header == SubSeq(text, 1, Len(text) - Len(last.args.line) - 1)
            number == SubSeq(header, Len(C8_Header) + 1, Len(header) - 2)
        IN  /\ AppendOnly
            /\ other = <<>>
            /\ text = header \o last.args.line \o <<"\n">>
            /\ header = C8_Header \o number \o <<":", "\n">>
            /\ Len(number) > 0
            /\ Len(number) > 1 => number[1] # "0"
            /\ \A i \in 1..Len(number) : \E n \in 0..9 : Digit(n) = <<number[i]>>
            /\ DecimalValue(number) = last.args.nline

\* a two-digit line number and a non-empty line, on stderr
C8_Witness ==
    /\ last.op = "print_parse_error"
    /\ last.args.nline >= 10
    /\ last.args.line = S_r1
    /\ ~last.args.print_to_stdout
    /\ stderr # last.err0

(***************************************************************************)
(* C9: for a recognized type print_analysis emits one newline-terminated   *)
(* line on stdout that begins with ".<type>" and holds a field iff it      *)
(* applies: for op each key but type, outfile and verbose once as          *)
(* " key=value"; for tran " method=" iff method is not None; for shooting  *)
(* " points=" and " step=" iff the value is not None. For any other type   *)
(* nothing is emitted.                                                     *)
(***************************************************************************)
C9_Recognized(an) ==
    /\ has_key(an, K_type)
    /\ getitem(an, K_type) \in {PyStr(T_op), PyStr(T_dc), PyStr(T_tran), PyStr(T_shooting)}

\* the fields the branch of an's type reads
C9_Reads(an) ==
    LET type == getitem(an, K_type).v
    IN  IF type = T_dc THEN {K_source, K_start, K_stop, K_step, K_sweep_type}
        ELSE IF type = T_tran THEN {K_tstep, K_tstop, K_tstart, K_method}
        ELSE IF type = T_shooting
        THEN {K_period, K_method, K_points, K_step, K_autonomous}
        ELSE {}

C9_Field(an, k) == IF has_key(an, k) THEN getitem(an, k) ELSE PyNone
C9_Times(applies) == IF applies THEN 1 ELSE 0

C9_Line(an) ==
    LET type == getitem(an, K_type).v
        text == OutEmitted
    IN  /\ AppendOnly
        /\ ErrEmitted = <<>>
        /\ OneLine(text)
        /\ IsPrefix(<<".">> \o type, text)
        /\ type = T_op =>
              \A i \in 1..Len(an) :
                 Occurrences(<<" ">> \o an[i].k \o <<"=">> \o str(an[i].v), text)
                    = C9_Times(an[i].k \notin {K_type, K_outfile, K_verbose})
        /\ type = T_tran =>
              Occurrences(<<" ", "m", "e", "t", "h", "o", "d", "=">>, text)
                 = C9_Times(C9_Field(an, K_method) # PyNone)
        /\ type = T_shooting =>
              /\ Occurrences(<<" ", "p", "o", "i", "n", "t", "s", "=">>, text)
                    = C9_Times(C9_Field(an, K_points) # PyNone)
              /\ Occurrences(<<" ", "s", "t", "e", "p", "=">>, text)
                    = C9_Times(C9_Field(an, K_step) # PyNone)

C9_Nothing == stdout = last.out0 /\ stderr = last.err0

C10_ResultCheck ==
    last.op = "print_result_check" =>
        LET badvars == last.args.badvars
            lines == SplitLines(OutEmitted)
        IN  /\ AppendOnly
            /\ ErrEmitted = <<>>
            /\ IF Len(badvars) > 0
               THEN /\ Len(lines) = 2 + Len(badvars)
                    /\ lines[1] = GMIN_WARNING \o <<"\n">>
                    /\ lines[2] = AFFECTED \o <<"\n">>
                    /\ \A i \in 1..Len(badvars) : lines[2 + i] = badvars[i].v \o <<"\n">>
                    /\ Occurrences(WITHIN_MARGINS, OutEmitted) = 0
               ELSE IF last.args.verbose # 0
               THEN /\ Len(lines) = 2
                    /\ lines[1] = WITHIN_MARGINS \o <<"\n">>
                    /\ Occurrences(GMIN_WARNING, OutEmitted) = 0
               ELSE OutEmitted = <<>>

\* two bad variables were reported at verbosity 0
C10_Witness ==
    /\ last.op = "print_result_check"
    /\ Len(last.args.badvars) = 2
    /\ last.args.verbose = 0
    /\ stdout # last.out0
====
